---- MODULE Spec2Model ----
(***************************************************************************)
(* A model of prism.util.alignment.lazy_align: the best-first (Dijkstra)   *)
(* search over the alignment grid, its frontier heap, the relaxation of    *)
(* the three forward edges and the backtracking pass that rebuilds the     *)
(* alignment.  One behaviour is one call of lazy_align on inputs chosen    *)
(* in Init.                                                                *)
(***************************************************************************)
EXTENDS Integers, Sequences, FiniteSets, Bags, TLC

VARIABLES
    a,          \* first input sequence
    b,          \* second input sequence
    calign,     \* cost of aligning two elements, a function of the pair
    cskip,      \* cost of skipping one element
    D,          \* DP table: best known cost of each cell
    BT,         \* backtracking table: predecessor of each cell
    heap,       \* the frontier, a bag of tuples <<cost, -x, -y>>
    candidate,  \* the tuple popped last, <<>> before the first pop
    x,          \* backtracking position (row)
    y,          \* backtracking position (column)
    alignment,  \* entries appended while backtracking (last entry first)
    pc,         \* "search", "backtrack", "done" or "IndexError"
    result,     \* the returned value, <<>> before the return
    other,      \* the locals of a second call running on the same inputs, or NoCall
    pushed,     \* history: the heap entries pushed so far, each with the cell popped
                \* when it was pushed (<<>> for the initial entry), in push order
    popped      \* history: the heap entries popped so far, in pop order

vars == <<a, b, calign, cskip, D, BT, heap, candidate, x, y, alignment, pc, result, other,
          pushed, popped>>

(***************************************************************************)
(* Bounds of the inputs.                                                   *)
(***************************************************************************)
MaxLen == 2
MaxSkipCost == 2
MaxAlignCost == 1
\* the size of the negative cost of the calls that break the precondition
MaxNegCost == 1

\* The elements the bounded sequences are made of.
Elems == {"p", "q"}

\* The characters of the docstring's example, 'smarts' against 'cat'.
Chars == {"s", "m", "a", "r", "t", "c"}
Smarts == <<"s", "m", "a", "r", "t", "s">>
Cat == <<"c", "a", "t">>

\* Python's None, the absent side of an alignment entry.
None == "None"

\* np.infty.  Finite costs of the model stay far below it.
Infty == 1000000

\* Faulty variant of Add: the cost of the edge alone, D[cx, cy] left out.
AddDropsBase(c, d) == c

\* float addition with an infinite operand
Add(c, d) == IF c >= Infty \/ d >= Infty THEN Infty ELSE c + d

Range(s) == {s[k] : k \in 1..Len(s)}

SeqsUpTo(S, k) == UNION {[1..l -> S] : l \in 0..k}

\* lambda x, y: x != y  (0 for equal elements, 1 otherwise)
EditCost(S) == [p \in S \X S |-> IF p[1] = p[2] THEN 0 ELSE 1]

\* a skip cost of 1 for every element
UnitSkip(S) == [e \in S |-> 1]

Cells == (0..Len(a)) \X (0..Len(b))

\* end = (len(a), len(b))
End == <<Len(a), Len(b)>>

\* neighbors = np.array([[1, 0], [1, 1], [0, 1]])
Neighbors == <<(<<1, 0>>), (<<1, 1>>), (<<0, 1>>)>>

\* nc, cx, cy = candidate[0], -candidate[1], -candidate[2]
CellOf(cand) == <<-cand[2], -cand[3]>>
cx == -candidate[2]
cy == -candidate[3]

(***************************************************************************)
(* The frontier.  heapq keeps a binary heap of tuples and pops a least     *)
(* one under Python's tuple order; equal tuples are indistinguishable, so  *)
(* the heap is modelled by the bag of its tuples.                          *)
(***************************************************************************)
\* Faulty variants of TupleLess: the coordinates pushed without the negation
\* (ties go to the cell nearer the start), the cost alone, the coordinates alone.
TupleLessNearStart(s, t) ==
    \/ s[1] < t[1]
    \/ s[1] = t[1] /\ s[2] > t[2]
    \/ s[1] = t[1] /\ s[2] = t[2] /\ s[3] > t[3]

TupleLessCostOnly(s, t) == s[1] < t[1]

TupleLessIgnoreCost(s, t) ==
    \/ s[2] < t[2]
    \/ s[2] = t[2] /\ s[3] < t[3]
    \/ s[2] = t[2] /\ s[3] = t[3] /\ s[1] < t[1]

\* Faulty variant of TupleLess: the tuple compared as (x, y, cost).
TupleLessCellFirst(s, t) ==
    \/ s[2] > t[2]
    \/ s[2] = t[2] /\ s[3] > t[3]
    \/ s[2] = t[2] /\ s[3] = t[3] /\ s[1] < t[1]

\* Faulty variant of TupleLess: the tuple compared as (x, y, -cost), so that
\* the cells are popped row by row and the dearest entry of a cell first.
TupleLessCellThenDearest(s, t) ==
    \/ s[2] > t[2]
    \/ s[2] = t[2] /\ s[3] > t[3]
    \/ s[2] = t[2] /\ s[3] = t[3] /\ s[1] > t[1]

\* Python's order on the tuples (cost, -x, -y): lexicographic
TupleLess(s, t) ==
    \/ s[1] < t[1]
    \/ s[1] = t[1] /\ s[2] < t[2]
    \/ s[1] = t[1] /\ s[2] = t[2] /\ s[3] < t[3]

\* the tuples heapq.heappop may return: those with no smaller tuple in the heap
HeapMins(h) == {s \in BagToSet(h) : \A t \in BagToSet(h) : ~TupleLess(t, s)}

HeapPush(h, t) == h (+) SetToBag({t})

\* Faulty variant of HeapRemove: the least tuple is read and left in the heap.
HeapRemovePeek(h, t) == h

HeapRemove(h, t) == h (-) SetToBag({t})

(***************************************************************************)
(* One iteration of the search loop.                                       *)
(***************************************************************************)
\* Faulty variants of EdgeCosts: the skip in A priced by the first element of a;
\* the align step priced against the first element of b.
EdgeCostsFirstSkip(i, j) ==
    << IF i < Len(a) THEN cskip[a[1]] ELSE Infty,
       IF i < Len(a) /\ j < Len(b) THEN calign[<<a[i + 1], b[j + 1]>>] ELSE Infty,
       IF j < Len(b) THEN cskip[b[j + 1]] ELSE Infty >>

EdgeCostsFirstAlign(i, j) ==
    << IF i < Len(a) THEN cskip[a[i + 1]] ELSE Infty,
       IF i < Len(a) /\ j < Len(b) THEN calign[<<a[i + 1], b[1]>>] ELSE Infty,
       IF j < Len(b) THEN cskip[b[j + 1]] ELSE Infty >>

\* Faulty variant of EdgeCosts: the guards test for an empty sequence, and in
\* the last row or column the cost functions are given the last element.
EdgeCostsAtBorder(i, j) ==
    LET ia == IF i < Len(a) THEN i + 1 ELSE Len(a)
        jb == IF j < Len(b) THEN j + 1 ELSE Len(b)
    IN  << IF Len(a) > 0 THEN cskip[a[ia]] ELSE Infty,
           IF Len(a) > 0 /\ Len(b) > 0 THEN calign[<<a[ia], b[jb]>>] ELSE Infty,
           IF Len(b) > 0 THEN cskip[b[jb]] ELSE Infty >>

\* the three edge costs out of cell (i, j), evaluated before the edges are relaxed
EdgeCosts(i, j) ==
    << IF i < Len(a) THEN cskip[a[i + 1]] ELSE Infty,
       IF i < Len(a) /\ j < Len(b) THEN calign[<<a[i + 1], b[j + 1]>>] ELSE Infty,
       IF j < Len(b) THEN cskip[b[j + 1]] ELSE Infty >>

\* Faulty variant of Improves: an equal cost replaces the recorded one too.
ImprovesOrEqual(nc, old) == nc <= old

\* Faulty variant of Improves: only the first cost found for a cell is recorded.
ImprovesFirstOnly(nc, old) == old >= Infty /\ nc < old

\* the test that lets a candidate cost replace the recorded one
Improves(nc, old) == nc < old

\* Faulty variant of RelaxEdge: the predecessor is recorded only the first
\* time a cell is reached.
RelaxEdgeKeepBT(st, i, j, costs, k) ==
    LET nx == i + Neighbors[k][1]
        ny == j + Neighbors[k][2]
    IN  IF nx > Len(a) \/ ny > Len(b)
        THEN st
        ELSE LET nc == Add(costs[k], st.D[<<i, j>>])
             IN  IF Improves(nc, st.D[<<nx, ny>>])
                 THEN [D    |-> [st.D EXCEPT ![<<nx, ny>>] = nc],
                       BT   |-> IF st.D[<<nx, ny>>] >= Infty
                                THEN [st.BT EXCEPT ![<<nx, ny>>] = <<i, j>>]
                                ELSE st.BT,
                       heap |-> HeapPush(st.heap, <<nc, -nx, -ny>>)]
                 ELSE st

\* Faulty variant of RelaxEdge: the entry pushed carries the cost c of the edge
\* instead of nc.
RelaxEdgePushesEdgeCost(st, i, j, costs, k) ==
    LET nx == i + Neighbors[k][1]
        ny == j + Neighbors[k][2]
    IN  IF nx > Len(a) \/ ny > Len(b)
        THEN st
        ELSE LET nc == Add(costs[k], st.D[<<i, j>>])
             IN  IF Improves(nc, st.D[<<nx, ny>>])
                 THEN [D    |-> [st.D EXCEPT ![<<nx, ny>>] = nc],
                       BT   |-> [st.BT EXCEPT ![<<nx, ny>>] = <<i, j>>],
                       heap |-> HeapPush(st.heap, <<costs[k], -nx, -ny>>)]
                 ELSE st

\* the body of the for loop for the k-th neighbour, on the tables st
RelaxEdge(st, i, j, costs, k) ==
    LET nx == i + Neighbors[k][1]
        ny == j + Neighbors[k][2]
    IN  IF nx > Len(a) \/ ny > Len(b)
        THEN st
        ELSE LET nc == Add(costs[k], st.D[<<i, j>>])
             IN  IF Improves(nc, st.D[<<nx, ny>>])
                 THEN [D    |-> [st.D EXCEPT ![<<nx, ny>>] = nc],
                       BT   |-> [st.BT EXCEPT ![<<nx, ny>>] = <<i, j>>],
                       heap |-> HeapPush(st.heap, <<nc, -nx, -ny>>)]
                 ELSE st

\* The entries the for loop pushed when cell p was popped, in push order, read
\* off the heap before and after the loop: for each neighbour in turn, the
\* tuple for it that the heap has gained.
Pushes(before, after, p) ==
    LET gained == BagToSet(after (-) before)
        Push(k) == LET new == {t \in gained : CellOf(t) = <<p[1] + Neighbors[k][1],
                                                             p[2] + Neighbors[k][2]>>}
                   IN  IF new = {} THEN <<>>
                       ELSE << [from |-> p, entry |-> CHOOSE t \in new : TRUE] >>
    IN  IF gained = {} THEN <<>> ELSE Push(1) \o Push(2) \o Push(3)

\* the whole for loop: the three neighbours in the order of Neighbors
RelaxAll(st, i, j) ==
    LET costs == EdgeCosts(i, j)
        s1 == RelaxEdge(st, i, j, costs, 1)
        s2 == RelaxEdge(s1, i, j, costs, 2)
    IN  RelaxEdge(s2, i, j, costs, 3)

(***************************************************************************)
(* Initial states: the tables as allocated, for every bounded input and    *)
(* for the docstring's example.                                            *)
(***************************************************************************)
\* Faulty variant of Tables: D is filled with np.infty and D[0, 0] is never set.
TablesWithoutOrigin ==
    /\ D = [c \in Cells |-> Infty]
    /\ BT = [c \in Cells |-> <<0, 0>>]
    /\ heap = SetToBag({<<0, 0, 0>>})
    /\ candidate = <<>>
    /\ x = 0
    /\ y = 0
    /\ alignment = <<>>
    /\ pc = "search"
    /\ result = <<>>
    /\ pushed = << [from |-> <<>>, entry |-> <<0, 0, 0>>] >>
    /\ popped = <<>>

Tables ==
    /\ D = [c \in Cells |-> IF c = <<0, 0>> THEN 0 ELSE Infty]
    /\ BT = [c \in Cells |-> <<0, 0>>]
    /\ heap = SetToBag({<<0, 0, 0>>})
    /\ candidate = <<>>
    /\ x = 0
    /\ y = 0
    /\ alignment = <<>>
    /\ pc = "search"
    /\ result = <<>>
    /\ pushed = << [from |-> <<>>, entry |-> <<0, 0, 0>>] >>
    /\ popped = <<>>

\* lazy_align never inspects an element: it only indexes the sequences and
\* hands elements to calign and cskip, which are arbitrary here.  Renaming the
\* elements of a call therefore gives a call with the same run, and the bounded
\* inputs are taken up to renaming: the first element met in a, then b, is "p".
FirstIsP(s) == IF Len(s) = 0 THEN TRUE ELSE s[1] = "p"

\* The cost functions are given by their values on the arguments the call can
\* pass them: calign on (element of a, element of b), cskip on the elements of
\* either sequence.
InitBounded ==
    /\ a \in SeqsUpTo(Elems, MaxLen)
    /\ b \in SeqsUpTo(Elems, MaxLen)
    /\ FirstIsP(a \o b)
    /\ calign \in [Range(a) \X Range(b) -> 0..MaxAlignCost]
    /\ cskip \in [Range(a) \cup Range(b) -> 0..MaxSkipCost]
    /\ Tables

InitDocstring ==
    /\ a = Smarts
    /\ b = Cat
    /\ calign = EditCost(Chars)
    /\ cskip = UnitSkip(Chars)
    /\ Tables

\* no second call
NoCall == [pc |-> "none"]

Init == (InitBounded \/ InitDocstring) /\ other = NoCall

\* Calls that break the precondition: every cost is -MaxNegCost, 0 or
\* MaxAlignCost, and at least one value of calign or cskip is negative.
NegCosts == {-MaxNegCost, 0, MaxAlignCost}

HasNegativeCost ==
    \/ \E p \in DOMAIN calign : calign[p] < 0
    \/ \E e \in DOMAIN cskip : cskip[e] < 0

InitNegative ==
    /\ a \in SeqsUpTo(Elems, MaxLen)
    /\ b \in SeqsUpTo(Elems, MaxLen)
    /\ FirstIsP(a \o b)
    /\ calign \in [Range(a) \X Range(b) -> NegCosts]
    /\ cskip \in [Range(a) \cup Range(b) -> NegCosts]
    /\ HasNegativeCost
    /\ Tables
    /\ other = NoCall

(***************************************************************************)
(* Actions.                                                                *)
(***************************************************************************)
\* One pass of `while (cx, cy) != end`: pop, relax the three edges, and leave
\* the loop (x, y = len(a), len(b); alignment = []) when the popped cell is end.
\* heappop on an empty heap raises IndexError.
Pop ==
    /\ pc = "search"
    /\ IF heap = EmptyBag
       THEN /\ pc' = "IndexError"
            /\ UNCHANGED <<D, BT, heap, candidate, x, y, alignment, pushed, popped>>
       ELSE \E cand \in HeapMins(heap) :
              LET i == CellOf(cand)[1]
                  j == CellOf(cand)[2]
                  st == RelaxAll([D |-> D, BT |-> BT, heap |-> HeapRemove(heap, cand)], i, j)
              IN  /\ candidate' = cand
                  /\ D' = st.D
                  /\ BT' = st.BT
                  /\ heap' = st.heap
                  /\ popped' = Append(popped, cand)
                  /\ pushed' = pushed \o Pushes(HeapRemove(heap, cand), st.heap, <<i, j>>)
                  /\ IF <<i, j>> = End
                     THEN /\ pc' = "backtrack"
                          /\ x' = Len(a)
                          /\ y' = Len(b)
                          /\ alignment' = <<>>
                     ELSE /\ pc' = "search"
                          /\ UNCHANGED <<x, y, alignment>>
    /\ UNCHANGED <<a, b, calign, cskip, result, other>>

\* Faulty variant of Entry: a side is present only on a move along its own axis.
EntryDiagonalDropped(i, j, ni, nj) ==
    << IF ni < i /\ nj = j THEN a[ni + 1] ELSE None,
       IF nj < j /\ ni = i THEN b[nj + 1] ELSE None >>

\* the entry appended when backtracking from (i, j) to its predecessor (ni, nj)
Entry(i, j, ni, nj) ==
    << IF ni < i THEN a[ni + 1] ELSE None,
       IF nj < j THEN b[nj + 1] ELSE None >>

\* Faulty variant of Backtrack: the element emitted is popped off a.
BacktrackConsuming ==
    /\ pc = "backtrack"
    /\ <<x, y>> # <<0, 0>>
    /\ LET nx == BT[<<x, y>>][1]
           ny == BT[<<x, y>>][2]
       IN  /\ alignment' = Append(alignment, Entry(x, y, nx, ny))
           /\ a' = IF nx < x THEN SubSeq(a, 1, Len(a) - 1) ELSE a
           /\ x' = nx
           /\ y' = ny
    /\ UNCHANGED <<b, calign, cskip, D, BT, heap, candidate, pc, result, other, pushed, popped>>

\* One pass of `while (x, y) != (0, 0)`: backtrack once.
Backtrack ==
    /\ pc = "backtrack"
    /\ <<x, y>> # <<0, 0>>
    /\ LET nx == BT[<<x, y>>][1]
           ny == BT[<<x, y>>][2]
       IN  /\ alignment' = Append(alignment, Entry(x, y, nx, ny))
           /\ x' = nx
           /\ y' = ny
    /\ UNCHANGED <<a, b, calign, cskip, D, BT, heap, candidate, pc, result, other, pushed, popped>>

\* Faulty variant of Reverse: the list is returned in backtracking order.
ReverseForgotten(s) == s

\* alignment[::-1]
Reverse(s) == [k \in 1..Len(s) |-> s[Len(s) + 1 - k]]

\* Faulty variant of Returned: the cost is read from the first cell of D.
ReturnedFirstCell(return_cost) ==
    IF return_cost
    THEN [with_cost |-> TRUE, cost |-> D[<<0, 0>>], alignment |-> Reverse(alignment)]
    ELSE [with_cost |-> FALSE, cost |-> None, alignment |-> Reverse(alignment)]

\* Faulty variant of Returned: only the branch that returns the cost reverses.
ReturnedPlainUnreversed(return_cost) ==
    IF return_cost
    THEN [with_cost |-> TRUE, cost |-> D[End], alignment |-> Reverse(alignment)]
    ELSE [with_cost |-> FALSE, cost |-> None, alignment |-> alignment]

\* the value returned for a given return_cost
Returned(return_cost) ==
    IF return_cost
    THEN [with_cost |-> TRUE, cost |-> D[End], alignment |-> Reverse(alignment)]
    ELSE [with_cost |-> FALSE, cost |-> None, alignment |-> Reverse(alignment)]

\* the return statement, for either value of return_cost
Return ==
    /\ pc = "backtrack"
    /\ <<x, y>> = <<0, 0>>
    /\ \E return_cost \in BOOLEAN : result' = Returned(return_cost)
    /\ pc' = "done"
    /\ UNCHANGED <<a, b, calign, cskip, D, BT, heap, candidate, x, y, alignment, other, pushed, popped>>

Next == Pop \/ Backtrack \/ Return

Spec == Init /\ [][Next]_vars

(***************************************************************************)
(* A second call of lazy_align on the same inputs, its steps interleaved   *)
(* with those of the first.  D, BT, heap, the loop variables and the       *)
(* alignment are locals of a call: the second call has its own, the record *)
(* other.                                                                  *)
(***************************************************************************)
\* the locals of a call that has run up to the search loop
FreshCall ==
    [D         |-> [c \in Cells |-> IF c = <<0, 0>> THEN 0 ELSE Infty],
     BT        |-> [c \in Cells |-> <<0, 0>>],
     heap      |-> SetToBag({<<0, 0, 0>>}),
     candidate |-> <<>>,
     x         |-> 0,
     y         |-> 0,
     alignment |-> <<>>,
     pc        |-> "search",
     result    |-> <<>>]

\* one pass of the search loop on the locals st, popping cand
PopWith(st, cand) ==
    LET i == CellOf(cand)[1]
        j == CellOf(cand)[2]
        r == RelaxAll([D |-> st.D, BT |-> st.BT, heap |-> HeapRemove(st.heap, cand)], i, j)
    IN  IF <<i, j>> = End
        THEN [st EXCEPT !.candidate = cand, !.D = r.D, !.BT = r.BT, !.heap = r.heap,
                        !.pc = "backtrack", !.x = Len(a), !.y = Len(b),
                        !.alignment = <<>>]
        ELSE [st EXCEPT !.candidate = cand, !.D = r.D, !.BT = r.BT, !.heap = r.heap]

\* one pass of the backtracking loop on the locals st
BacktrackOf(st) ==
    LET nx == st.BT[<<st.x, st.y>>][1]
        ny == st.BT[<<st.x, st.y>>][2]
    IN  [st EXCEPT !.alignment = Append(st.alignment, Entry(st.x, st.y, nx, ny)),
                   !.x = nx, !.y = ny]

\* the return statement on the locals st
ReturnOf(st, return_cost) ==
    [st EXCEPT !.pc = "done",
               !.result = [with_cost |-> return_cost,
                           cost      |-> IF return_cost THEN st.D[End] ELSE None,
                           alignment |-> Reverse(st.alignment)]]

\* Faulty variant of OtherPop: the heap is one object shared by the two calls.
OtherPopSharedHeap ==
    /\ other.pc = "search"
    /\ IF heap = EmptyBag
       THEN /\ other' = [other EXCEPT !.pc = "IndexError"]
            /\ UNCHANGED heap
       ELSE \E cand \in HeapMins(heap) :
              LET r == PopWith([other EXCEPT !.heap = heap], cand)
              IN  other' = r /\ heap' = r.heap
    /\ UNCHANGED <<a, b, calign, cskip, D, BT, candidate, x, y, alignment, pc, result,
                 pushed, popped>>

OtherPop ==
    /\ other.pc = "search"
    /\ IF other.heap = EmptyBag
       THEN other' = [other EXCEPT !.pc = "IndexError"]
       ELSE \E cand \in HeapMins(other.heap) : other' = PopWith(other, cand)
    /\ UNCHANGED <<a, b, calign, cskip, D, BT, heap, candidate, x, y, alignment, pc, result,
                 pushed, popped>>

OtherBacktrack ==
    /\ other.pc = "backtrack"
    /\ <<other.x, other.y>> # <<0, 0>>
    /\ other' = BacktrackOf(other)
    /\ UNCHANGED <<a, b, calign, cskip, D, BT, heap, candidate, x, y, alignment, pc, result,
                 pushed, popped>>

OtherReturn ==
    /\ other.pc = "backtrack"
    /\ <<other.x, other.y>> = <<0, 0>>
    /\ \E return_cost \in BOOLEAN : other' = ReturnOf(other, return_cost)
    /\ UNCHANGED <<a, b, calign, cskip, D, BT, heap, candidate, x, y, alignment, pc, result,
                 pushed, popped>>

\* two calls on the same sequences under the edit-distance costs
InitTwoCalls ==
    /\ \/ /\ a \in SeqsUpTo(Elems, MaxLen)
          /\ b \in SeqsUpTo(Elems, MaxLen)
          /\ FirstIsP(a \o b)
          /\ calign = EditCost(Elems)
          /\ cskip = UnitSkip(Elems)
       \/ /\ a = Smarts
          /\ b = Cat
          /\ calign = EditCost(Chars)
          /\ cskip = UnitSkip(Chars)
    /\ Tables
    /\ other = FreshCall

NextTwoCalls == Pop \/ Backtrack \/ Return \/ OtherPop \/ OtherBacktrack \/ OtherReturn

SpecTwoCalls == InitTwoCalls /\ [][NextTwoCalls]_vars

(***************************************************************************)
(* The call run side by side with the algorithm as its description has it, *)
(* which adds the edge cost to the cost of the popped entry instead of     *)
(* D[cx, cy].  The described algorithm keeps its locals in the record      *)
(* other; both take every step together.                                   *)
(***************************************************************************)
\* the locals of the call, as a record
Locals ==
    [D |-> D, BT |-> BT, heap |-> heap, candidate |-> candidate, x |-> x, y |-> y,
     alignment |-> alignment, pc |-> pc, result |-> result]

\* the locals of the call become those of the record r
Becomes(r) ==
    /\ D' = r.D
    /\ BT' = r.BT
    /\ heap' = r.heap
    /\ candidate' = r.candidate
    /\ x' = r.x
    /\ y' = r.y
    /\ alignment' = r.alignment
    /\ pc' = r.pc
    /\ result' = r.result

\* the outcomes of one pass of the search loop on the locals st
PopsOf(st) ==
    IF st.heap = EmptyBag
    THEN {[st EXCEPT !.pc = "IndexError"]}
    ELSE {PopWith(st, cand) : cand \in HeapMins(st.heap)}

\* the relaxation as described: nc = cost of the popped entry + edge cost
DescribedRelaxEdge(st, cost, i, j, costs, k) ==
    LET nx == i + Neighbors[k][1]
        ny == j + Neighbors[k][2]
    IN  IF nx > Len(a) \/ ny > Len(b)
        THEN st
        ELSE LET nc == Add(costs[k], cost)
             IN  IF nc < st.D[<<nx, ny>>]
                 THEN [D    |-> [st.D EXCEPT ![<<nx, ny>>] = nc],
                       BT   |-> [st.BT EXCEPT ![<<nx, ny>>] = <<i, j>>],
                       heap |-> HeapPush(st.heap, <<nc, -nx, -ny>>)]
                 ELSE st

DescribedRelaxAll(st, cost, i, j) ==
    LET costs == EdgeCosts(i, j)
        s1 == DescribedRelaxEdge(st, cost, i, j, costs, 1)
        s2 == DescribedRelaxEdge(s1, cost, i, j, costs, 2)
    IN  DescribedRelaxEdge(s2, cost, i, j, costs, 3)

\* one pass of the described search loop on the locals st, popping cand
DescribedPopWith(st, cand) ==
    LET i == CellOf(cand)[1]
        j == CellOf(cand)[2]
        r == DescribedRelaxAll([D |-> st.D, BT |-> st.BT,
                                heap |-> HeapRemove(st.heap, cand)], cand[1], i, j)
    IN  IF <<i, j>> = End
        THEN [st EXCEPT !.candidate = cand, !.D = r.D, !.BT = r.BT, !.heap = r.heap,
                        !.pc = "backtrack", !.x = Len(a), !.y = Len(b),
                        !.alignment = <<>>]
        ELSE [st EXCEPT !.candidate = cand, !.D = r.D, !.BT = r.BT, !.heap = r.heap]

DescribedPopsOf(st) ==
    IF st.heap = EmptyBag
    THEN {[st EXCEPT !.pc = "IndexError"]}
    ELSE {DescribedPopWith(st, cand) : cand \in HeapMins(st.heap)}

BothPop ==
    /\ pc = "search"
    /\ other.pc = "search"
    /\ \E r \in PopsOf(Locals), d \in DescribedPopsOf(other) :
          /\ Becomes(r)
          /\ other' = d
          /\ IF r.pc = "IndexError"
             THEN UNCHANGED <<pushed, popped>>
             ELSE /\ popped' = Append(popped, r.candidate)
                  /\ pushed' = pushed \o Pushes(HeapRemove(heap, r.candidate), r.heap,
                                                CellOf(r.candidate))
    /\ UNCHANGED <<a, b, calign, cskip>>

BothBacktrack ==
    /\ pc = "backtrack"
    /\ other.pc = "backtrack"
    /\ <<x, y>> # <<0, 0>>
    /\ <<other.x, other.y>> # <<0, 0>>
    /\ Becomes(BacktrackOf(Locals))
    /\ other' = BacktrackOf(other)
    /\ UNCHANGED <<a, b, calign, cskip, pushed, popped>>

BothReturn ==
    /\ pc = "backtrack"
    /\ other.pc = "backtrack"
    /\ <<x, y>> = <<0, 0>>
    /\ <<other.x, other.y>> = <<0, 0>>
    /\ \E return_cost \in BOOLEAN :
          Becomes(ReturnOf(Locals, return_cost)) /\ other' = ReturnOf(other, return_cost)
    /\ UNCHANGED <<a, b, calign, cskip, pushed, popped>>

InitSideBySide == (InitBounded \/ InitDocstring) /\ other = FreshCall

NextSideBySide == BothPop \/ BothBacktrack \/ BothReturn

SpecSideBySide == InitSideBySide /\ [][NextSideBySide]_vars

\* the calls whose cost functions return a negative value
SpecNegative == InitNegative /\ [][Next]_vars

\* One call runs to completion: no step is postponed forever.
FairSpec == Spec /\ WF_vars(Next)

(***************************************************************************)
(* Reference definitions the properties are stated with.                   *)
(***************************************************************************)
Min2(u, v) == IF u <= v THEN u ELSE v

\* Cells (i,0) .. (i,j) of the full recurrence as a sequence, given its row
\* i-1 as prev (unused for i = 0).
RECURSIVE MinRowUpTo(_, _, _)
MinRowUpTo(prev, i, j) ==
    IF j = 0
    THEN << IF i = 0 THEN 0 ELSE prev[1] + cskip[a[i]] >>
    ELSE LET r == MinRowUpTo(prev, i, j - 1)
             left == r[j] + cskip[b[j]]
         IN  Append(r, IF i = 0 THEN left
                       ELSE Min2(Min2(prev[j + 1] + cskip[a[i]],
                                      prev[j] + calign[<<a[i], b[j]>>]), left))

\* row i of the full recurrence: cells (i,0) .. (i,|b|)
RECURSIVE MinRow(_)
MinRow(i) == MinRowUpTo(IF i = 0 THEN <<>> ELSE MinRow(i - 1), i, Len(b))

\* The minimum, over all end-to-end interleavings of skip-in-A, align and
\* skip-in-B steps that consume a[1..i] and b[1..j], of the summed step costs,
\* computed row by row.
MinCost(i, j) == MinRow(i)[j + 1]

\* the cost of one alignment entry, re-applying the cost functions to it
EntryCost(e) ==
    IF e[1] # None /\ e[2] # None THEN calign[e]
    ELSE IF e[1] # None THEN cskip[e[1]]
    ELSE IF e[2] # None THEN cskip[e[2]]
    ELSE 0

RECURSIVE SumCosts(_)
SumCosts(al) == IF al = <<>> THEN 0 ELSE EntryCost(Head(al)) + SumCosts(Tail(al))

\* the present components of one side of an alignment, in order
RECURSIVE Side(_, _)
Side(al, k) ==
    IF al = <<>> THEN <<>>
    ELSE IF Head(al)[k] # None THEN <<Head(al)[k]>> \o Side(Tail(al), k)
    ELSE Side(Tail(al), k)

IsPair(e) == e[1] # None /\ e[2] # None

Done == pc = "done"
SearchOver == pc \in {"backtrack", "done"}
DoneWithCost == pc = "done" /\ result.with_cost

\* the alignment that skips every element of s on the given side
AllSkipped(s, k) == [n \in 1..Len(s) |-> IF k = 1 THEN <<s[n], None>> ELSE <<None, s[n]>>]

\* the docstring's expected alignment of 'smarts' and 'cat'
DocAlignment ==
    << <<"s", "c">>, <<"m", None>>, <<"a", "a">>, <<"r", None>>, <<"t", "t">>, <<"s", None>> >>

IsDocstringCall ==
    a = Smarts /\ b = Cat /\ calign = EditCost(Chars) /\ cskip = UnitSkip(Chars)

(***************************************************************************)
(* Properties.                                                             *)
(***************************************************************************)

\* C1: the cost returned with return_cost=True is the minimum summed step cost
\* over all end-to-end interleavings (the value of the full DP recurrence at
\* cell (|a|, |b|)).
C1_Optimal == DoneWithCost => result.cost = MinCost(Len(a), Len(b))

\* a call on two sequences of length 2 whose optimum mixes an align step with
\* skips and is cheaper than both aligning everything and skipping everything
C1_Witness ==
    /\ DoneWithCost
    /\ Len(a) = 2 /\ Len(b) = 2
    /\ \E k \in 1..Len(result.alignment) : IsPair(result.alignment[k])
    /\ \E k \in 1..Len(result.alignment) : ~IsPair(result.alignment[k])
    /\ result.cost < calign[<<a[1], b[1]>>] + calign[<<a[2], b[2]>>]
    /\ result.cost < cskip[a[1]] + cskip[a[2]] + cskip[b[1]] + cskip[b[2]]

\* C2: the returned alignment covers both inputs exactly once and in order: its
\* present left components spell a and its present right components spell b.
C2_Coverage ==
    Done => /\ Side(result.alignment, 1) = a
            /\ Side(result.alignment, 2) = b

\* a returned alignment of two different sequences that holds a pair, a skip in
\* a and a skip in b
C2_Witness ==
    /\ Done
    /\ a # b
    /\ \E k \in 1..Len(result.alignment) : IsPair(result.alignment[k])
    /\ \E k \in 1..Len(result.alignment) : result.alignment[k][2] = None
    /\ \E k \in 1..Len(result.alignment) : result.alignment[k][1] = None

\* C3: the returned total cost equals the sum of the costs obtained by
\* re-applying calign / cskip to the entries of the returned alignment.
C3_CostAgreement == DoneWithCost => result.cost = SumCosts(result.alignment)

\* a returned cost made of a nonzero align cost and a nonzero skip cost
C3_Witness ==
    /\ DoneWithCost
    /\ \E k \in 1..Len(result.alignment) :
         IsPair(result.alignment[k]) /\ EntryCost(result.alignment[k]) > 0
    /\ \E k \in 1..Len(result.alignment) :
         ~IsPair(result.alignment[k]) /\ EntryCost(result.alignment[k]) > 0

\* C4: 'smarts' against 'cat' under the edit-distance costs returns exactly the
\* docstring's alignment, with total cost 4.
C4_Docstring ==
    (Done /\ IsDocstringCall) =>
        /\ result.alignment = DocAlignment
        /\ D[End] = 4
        /\ (result.with_cost => result.cost = 4)

C4_Witness == DoneWithCost /\ IsDocstringCall

\* C5: with an empty b the result skips every element of a, with an empty a it
\* skips every element of b (both empty: the empty alignment, cost 0), the cost
\* is the sum of the skip costs, and the call never pops an empty frontier nor
\* leaves the grid (so that every guarded index into a or b is in range).
C5_Degenerate ==
    /\ (Len(a) = 0 \/ Len(b) = 0) =>
          /\ pc # "IndexError"
          /\ candidate # <<>> => CellOf(candidate) \in Cells
          /\ BT[<<x, y>>] \in Cells
    /\ (Done /\ Len(b) = 0) =>
          /\ result.alignment = AllSkipped(a, 1)
          /\ D[End] = SumCosts(AllSkipped(a, 1))
          /\ (result.with_cost => result.cost = D[End])
    /\ (Done /\ Len(a) = 0) =>
          /\ result.alignment = AllSkipped(b, 2)
          /\ D[End] = SumCosts(AllSkipped(b, 2))
          /\ (result.with_cost => result.cost = D[End])

\* a returned call with an empty b and a two-element a of different skip costs
C5_Witness ==
    /\ DoneWithCost
    /\ Len(b) = 0 /\ Len(a) = 2
    /\ cskip[a[1]] # cskip[a[2]]
    /\ result.cost > 0

\* a returned call with an empty a and a non-empty b
C5_WitnessLeftEmpty == DoneWithCost /\ Len(a) = 0 /\ Len(b) = 2

\* a returned call with both sequences empty
C5_WitnessBothEmpty == DoneWithCost /\ Len(a) = 0 /\ Len(b) = 0

\* the preconditions of the zero-cost identity
IsIdentityCall ==
    /\ a = b
    /\ calign = EditCost(Range(a))
    /\ \A e \in DOMAIN cskip : cskip[e] > 0

\* C6: a sequence aligned with itself under calign = (0 if equal else 1) and a
\* strictly positive cskip yields only the pairs (a[i], a[i]), with cost 0.
C6_Identity ==
    (Done /\ IsIdentityCall) =>
        /\ result.alignment = [k \in 1..Len(a) |-> <<a[k], a[k]>>]
        /\ D[End] = 0
        /\ (result.with_cost => result.cost = 0)

\* a returned identity call on a sequence of two different elements
C6_Witness ==
    /\ DoneWithCost /\ IsIdentityCall
    /\ Len(a) = 2 /\ a[1] # a[2]
    /\ cskip[a[1]] # cskip[a[2]]

\* C7: the call is deterministic: whenever the frontier is popped exactly one
\* tuple can come out, also when several frontier entries have the same cost,
\* so the popped cells, the tables and the result are a function of the inputs.
C7_Deterministic == pc = "search" => Cardinality(HeapMins(heap)) <= 1

\* a pop at which several frontier entries tie on the least cost
C7_Witness ==
    /\ pc = "search"
    /\ \E s \in BagToSet(heap) : \E t \in BagToSet(heap) :
         /\ s # t
         /\ s[1] = t[1]
         /\ \A u \in BagToSet(heap) : s[1] <= u[1]

\* the sum of the entries of D in the first k cells, counted row by row
RECURSIVE SumD(_)
SumD(k) ==
    IF k = 0 THEN 0
    ELSE D[<<(k - 1) \div (Len(b) + 1), (k - 1) % (Len(b) + 1)>>] + SumD(k - 1)

\* A natural number that bounds the steps still to come: in the search every
\* pop removes a frontier entry and every push lowers an entry of D; in the
\* backtracking walk x + y is the distance still to walk.
Measure ==
    IF pc = "search"
    THEN Len(a) + Len(b) + 2 + BagCardinality(heap) + 2 * SumD((Len(a) + 1) * (Len(b) + 1))
    ELSE IF pc = "backtrack" THEN x + y + 1
    ELSE 0

Progresses ==
    /\ pc \in {"search", "backtrack", "done"}
    /\ pc = "search" => heap # EmptyBag /\ HeapMins(heap) # {}
    /\ pc = "backtrack" => BT[<<x, y>>] \in Cells
    /\ Measure >= 0
    /\ SearchOver => CellOf(candidate) = End
    /\ pc = "done" => <<x, y>> = <<0, 0>>

MeasureDecreases == Measure' < Measure

\* C8: every call runs to completion: the frontier is never popped empty, a
\* step is possible until the call has returned and every step lowers a
\* natural-number measure, so the search pops the terminal cell and the
\* backtracking walk reaches (0, 0) after finitely many steps.
C8_Terminates == []Progresses /\ [][MeasureDecreases]_vars

\* C8 as a liveness property of a call that runs unhindered (FairSpec)
C8_Completes == <>(pc = "done")

\* a completed call whose search popped more cells than the grid's diagonal
C8_Witness ==
    /\ Done
    /\ Len(a) = 2 /\ Len(b) = 2
    /\ Len(result.alignment) = 4

\* C9: the search stops at the first pop of the terminal cell; the cost of the
\* popped entry is D[n,m] and the true minimum, and nothing is popped afterwards.
PoppedFinal ==
    /\ (pc = "search" /\ candidate # <<>>) => CellOf(candidate) # End
    /\ SearchOver => /\ CellOf(candidate) = End
                     /\ candidate[1] = D[End]
                     /\ D[End] = MinCost(Len(a), Len(b))
NoLaterPop == SearchOver => (heap' = heap /\ candidate' = candidate)
C9_EarlyStop == []PoppedFinal /\ [][NoLaterPop]_vars

\* the terminal cell is popped while other entries are still in the frontier,
\* one of them with the same cost
C9_Witness ==
    /\ pc = "backtrack"
    /\ CellOf(candidate) = End
    /\ \E t \in BagToSet(heap) : t[1] = candidate[1]
    /\ \E t \in BagToSet(heap) : t[1] > candidate[1]

\* C10: no entry of the alignment is (None, None).
C10_NoEmptyEntry ==
    /\ \A k \in 1..Len(alignment) : alignment[k] # <<None, None>>
    /\ Done => \A k \in 1..Len(result.alignment) : result.alignment[k] # <<None, None>>

\* a returned alignment holding all three kinds of entry
C10_Witness ==
    /\ Done
    /\ Len(result.alignment) = 3
    /\ \E k \in 1..3 : IsPair(result.alignment[k])
    /\ \E k \in 1..3 : result.alignment[k][1] = None
    /\ \E k \in 1..3 : result.alignment[k][2] = None

\* twice the sum of D is never below this: no D entry is below the cost of the
\* cheapest conceivable path, of at most |a| + |b| edges of cost -MaxNegCost
MeasureFloor == -(2 * (Len(a) + 1) * (Len(b) + 1) * (Len(a) + Len(b)) * MaxNegCost)

\* Measure, raised during the search by what negative costs can take off it
NegMeasure == IF pc = "search" THEN Measure - MeasureFloor ELSE Measure

NegMeasureDecreases == NegMeasure' < NegMeasure

NegativeRunsOn ==
    /\ pc \in {"search", "backtrack", "done"}
    /\ pc = "search" => heap # EmptyBag /\ HeapMins(heap) # {}
    /\ pc = "backtrack" => BT[<<x, y>>] \in Cells
    /\ NegMeasure >= 0
    /\ Done => /\ Side(result.alignment, 1) = a
               /\ Side(result.alignment, 2) = b
               /\ \A k \in 1..Len(result.alignment) : result.alignment[k] # <<None, None>>

\* C11: with a negative cost the call raises no error, still terminates (every
\* step lowers a measure that is bounded below) and returns an end-to-end
\* interleaving that covers a and b in order; its cost need not be minimal.
C11_NegativeCosts == []NegativeRunsOn /\ [][NegMeasureDecreases]_vars

\* a returned call with a negative cost whose returned cost is not the minimum
C11_Witness ==
    /\ DoneWithCost
    /\ HasNegativeCost
    /\ result.cost > MinCost(Len(a), Len(b))

\* a call run alone from the locals st up to its return statement
RECURSIVE RunAlone(_)
RunAlone(st) ==
    IF st.pc = "search"
    THEN IF st.heap = EmptyBag
         THEN [st EXCEPT !.pc = "IndexError"]
         ELSE RunAlone(PopWith(st, CHOOSE c \in HeapMins(st.heap) : TRUE))
    ELSE IF st.pc = "backtrack" /\ <<st.x, st.y>> # <<0, 0>>
    THEN RunAlone(BacktrackOf(st))
    ELSE st

Alone == RunAlone(FreshCall)

\* C12: two calls whose steps are interleaved arbitrarily each return what a
\* call run alone on the same inputs returns, and each leaves D and BT as the
\* call run alone leaves them.
C12_Independent ==
    /\ pc # "IndexError"
    /\ other.pc # "IndexError"
    /\ pc = "done" => /\ result = ReturnOf(Alone, result.with_cost).result
                      /\ D = Alone.D
                      /\ BT = Alone.BT
    /\ other.pc = "done" => /\ other.result = ReturnOf(Alone, other.result.with_cost).result
                            /\ other.D = Alone.D
                            /\ other.BT = Alone.BT

\* the two calls in flight at once: the first is backtracking while the second
\* is in the middle of its search
C12_Witness ==
    /\ pc = "backtrack"
    /\ Len(alignment) >= 1
    /\ other.pc = "search"
    /\ other.candidate # <<>>
    /\ Len(a) = 2 /\ Len(b) = 2
    /\ a # b

InputsKept == a' = a /\ b' = b

\* C13: no step of the call (pop, relaxation, backtracking, return) modifies
\* the input sequences a and b.
C13_InputsNotMutated == [][InputsKept]_vars

\* a call on two non-empty sequences that has gone through every kind of step
C13_Witness ==
    /\ Done
    /\ Len(a) = 2 /\ Len(b) = 2
    /\ Len(result.alignment) = 3

\* the list al is the list of appended entries read backwards
IsReversedAlignment(al) ==
    /\ Len(al) = Len(alignment)
    /\ \A k \in 1..Len(al) : al[k] = alignment[Len(alignment) + 1 - k]

\* C14: the alignment returned is the same list for return_cost True and False
\* (the appended entries read backwards); with return_cost=True the extra value
\* is D[n,m], which is nonnegative.
C14_ReturnCost ==
    Done => /\ IsReversedAlignment(result.alignment)
            /\ result.with_cost => (result.cost = D[End] /\ result.cost >= 0)
            /\ ~result.with_cost => result.cost = None

\* a call returned without the cost whose alignment differs from its reverse,
\* with a positive D[n,m]
C14_Witness ==
    /\ Done
    /\ ~result.with_cost
    /\ Len(alignment) >= 2
    /\ alignment[1] # alignment[Len(alignment)]
    /\ D[End] > 0

\* the same call returned with the cost
C14_WitnessWithCost ==
    /\ DoneWithCost
    /\ Len(alignment) >= 2
    /\ alignment[1] # alignment[Len(alignment)]
    /\ result.cost > 0

\* the three grid predecessors of cell c that lie in the grid
Predecessors(c) ==
    {<<c[1] - 1, c[2]>>, <<c[1] - 1, c[2] - 1>>, <<c[1], c[2] - 1>>} \cap Cells

\* the cost of the step from p to c: a skip in A, an align step or a skip in B
StepCost(p, c) ==
    IF p[1] < c[1] /\ p[2] < c[2] THEN calign[<<a[c[1]], b[c[2]]>>]
    ELSE IF p[1] < c[1] THEN cskip[a[c[1]]]
    ELSE cskip[b[c[2]]]

\* the summed step costs of the path BT traces from (0, 0) to c, or Infty when
\* following BT from c leaves the grid predecessors before it reaches (0, 0)
RECURSIVE TraceCost(_)
TraceCost(c) ==
    IF c = <<0, 0>> THEN 0
    ELSE IF BT[c] \notin Predecessors(c) THEN Infty
    ELSE Add(TraceCost(BT[c]), StepCost(BT[c], c))

\* the path BT traces to every cell with a finite D is valid and sums to its D
TracesMatchD == \A c \in Cells : D[c] < Infty => TraceCost(c) = D[c]

\* C15: in every reachable state, for every cell with a finite D, following BT
\* back to (0, 0) traces a valid sequence of skip / align steps whose summed
\* costs equal the cell's D.
C15_TracesMatchD == []TracesMatchD

\* a state of the search in which a cell was reached twice, the second time
\* cheaper (the frontier still holds the dearer entry), and its successor
\* has been reached through it
C15_Witness ==
    /\ pc = "search"
    /\ \E t \in BagToSet(heap) :
         /\ t[1] > D[CellOf(t)]
         /\ \E c \in Cells : c # <<0, 0>> /\ D[c] < Infty /\ BT[c] = CellOf(t)

\* the cell popped last holds the true minimum cost of aligning its prefixes
PoppedAtMin ==
    candidate # <<>> =>
        D[CellOf(candidate)] = MinCost(CellOf(candidate)[1], CellOf(candidate)[2])

\* an entry of D changes only to a strictly smaller value, and only while it
\* is not yet the true minimum of its cell
OnlyRelaxations ==
    \A c \in Cells :
        D'[c] # D[c] => (D'[c] < D[c] /\ D[c] # MinCost(c[1], c[2]))

\* C16: when a cell is popped its D is the true minimum cost of aligning the
\* two prefixes, an entry of D that holds the true minimum never changes again,
\* and every update of an entry of D replaces it by a strictly smaller value.
C16_Finalized == []PoppedAtMin /\ [][OnlyRelaxations]_vars

\* a cell is popped after its D was lowered: the frontier still holds the
\* dearer entry pushed for it first
C16_Witness ==
    /\ candidate # <<>>
    /\ \E t \in BagToSet(heap) :
         CellOf(t) = CellOf(candidate) /\ t[1] > candidate[1]

\* the step pops an entry whose cost is above the D of its cell
PopsStale ==
    /\ pc = "search"
    /\ pc' # "IndexError"
    /\ candidate'[1] > D[CellOf(candidate')]

StalePopHarmless ==
    PopsStale => /\ D' = D
                 /\ BT' = BT
                 /\ heap' = heap (-) SetToBag({candidate'})

\* C17: popping a stale frontier entry changes no entry of D, no entry of BT
\* and pushes nothing: the frontier only loses the popped entry.
C17_StalePop == [][StalePopHarmless]_vars

\* the state after a stale pop: the popped entry is dearer than the D of its
\* cell, which has successors in the grid
C17_Witness ==
    /\ candidate # <<>>
    /\ candidate[1] > D[CellOf(candidate)]
    /\ CellOf(candidate)[1] < Len(a)
    /\ CellOf(candidate)[2] < Len(b)

\* a pop that follows another pop carries a cost no smaller than it
PopCostsGrow ==
    (pc = "search" /\ candidate # <<>> /\ pc' # "IndexError") =>
        candidate'[1] >= candidate[1]

\* C18: the costs of successively popped frontier entries never decrease over
\* the search (so a later pop for a cell costs no less than its first pop).
C18_PopsMonotone == [][PopCostsGrow]_vars

\* the search goes on after a pop of cost 2 or more, with entries of the same
\* cost and of a higher cost still in the frontier
C18_Witness ==
    /\ pc = "search"
    /\ candidate # <<>>
    /\ candidate[1] >= 2
    /\ \E t \in BagToSet(heap) : t[1] = candidate[1]
    /\ \E t \in BagToSet(heap) : t[1] > candidate[1]

\* remaining grid distance from the cell of a frontier entry to the corner (n,m)
Remaining(t) == (Len(a) - CellOf(t)[1]) + (Len(b) - CellOf(t)[2])

\* at a pop, no entry of the popped cost left in the frontier is nearer to (n,m)
PopsNearestOfTies ==
    (pc = "search" /\ pc' # "IndexError") =>
        \A t \in BagToSet(heap) :
            t[1] = candidate'[1] => Remaining(t) >= Remaining(candidate')

NearerOnBothAxes(t, s) ==
    /\ CellOf(t)[1] >= CellOf(s)[1]
    /\ CellOf(t)[2] >= CellOf(s)[2]
    /\ CellOf(t) # CellOf(s)

\* at a pop, no entry of the popped cost left in the frontier is for a cell that
\* is at least as near to (n,m) along both axes and nearer along one
PopsUndominatedOfTies ==
    (pc = "search" /\ pc' # "IndexError") =>
        \A t \in BagToSet(heap) :
            t[1] = candidate'[1] => ~NearerOnBothAxes(t, candidate')

LexFirst(s, t) ==
    \/ s[1] < t[1]
    \/ s[1] = t[1] /\ CellOf(s)[1] > CellOf(t)[1]
    \/ s[1] = t[1] /\ CellOf(s)[1] = CellOf(t)[1] /\ CellOf(s)[2] >= CellOf(t)[2]

\* the popped entry was in the frontier and comes first among all its entries
PopsLexFirst ==
    (pc = "search" /\ pc' # "IndexError") =>
        /\ candidate' \in BagToSet(heap)
        /\ \A t \in BagToSet(heap) : LexFirst(candidate', t)

\* C20: the frontier is popped in lexicographic order of (cost, -i, -j): the
\* popped entry has the minimum cost, among those the largest row index i, and
\* among those the largest column index j.
C20_LexOrder == [][PopsLexFirst]_vars

\* the state after a pop that left in the frontier an entry of the same cost in
\* a lower row and a later column, and an entry of a higher cost in a later row
C20_Witness ==
    /\ candidate # <<>>
    /\ \E t \in BagToSet(heap) :
          /\ t[1] = candidate[1]
          /\ CellOf(t)[1] < CellOf(candidate)[1]
          /\ CellOf(t)[2] > CellOf(candidate)[2]
    /\ \E t \in BagToSet(heap) :
          /\ t[1] > candidate[1]
          /\ CellOf(t)[1] > CellOf(candidate)[1]
          /\ D[CellOf(t)] = t[1]
          /\ BT[CellOf(t)] # CellOf(candidate)

\* the three grid successors of cell c that lie in the grid
Successors(c) ==
    {<<c[1] + 1, c[2]>>, <<c[1] + 1, c[2] + 1>>, <<c[1], c[2] + 1>>} \cap Cells

\* the step is a pass of the search loop that popped an entry
IsPop == pc = "search" /\ pc' # "IndexError"

\* the frontier entries for cell c are the same before and after the step
FrontierKeptFor(c) ==
    \A t \in BagToSet(heap) \cup BagToSet(heap') :
        CellOf(t) = c => CopiesIn(t, heap') = CopiesIn(t, heap)

\* a pop relaxes each successor c of the popped cell p: with nc the cost of
\* the step from p added to D[p], a strictly smaller nc is written to D[c], p
\* to BT[c] and (nc, c) is pushed once; otherwise all three are left alone
RelaxesStrictly ==
    IsPop =>
        LET p == CellOf(candidate')
        IN  \A c \in Successors(p) :
              LET nc == StepCost(p, c) + D[p]
              IN  IF nc < D[c]
                  THEN /\ D'[c] = nc
                       /\ BT'[c] = p
                       /\ CopiesIn(<<nc, -c[1], -c[2]>>, heap') =
                              CopiesIn(<<nc, -c[1], -c[2]>>, heap) + 1
                  ELSE /\ D'[c] = D[c]
                       /\ BT'[c] = BT[c]
                       /\ FrontierKeptFor(c)

\* C21: a relaxation updates D[x,y], BT[x,y] and the frontier together and only
\* on strict improvement; when nc is not strictly less than D[x,y] (nc = D[x,y]
\* included) all three are left unchanged, so the first predecessor found
\* among equal-cost ones stays in BT.
C21_StrictRelaxation == [][RelaxesStrictly]_vars

\* the state after a pop of a cell that reaches a successor at exactly the
\* cost already recorded for it through another predecessor
C21_Witness ==
    /\ candidate # <<>>
    /\ \E c \in Successors(CellOf(candidate)) :
          /\ D[c] < Infty
          /\ D[c] = StepCost(CellOf(candidate), c) + D[CellOf(candidate)]
          /\ BT[c] # CellOf(candidate)

\* the edges out of cell p whose cost is not np.infty: those for which a cost
\* function is called
EdgesPriced(p) == {k \in 1..3 : EdgeCosts(p[1], p[2])[k] < Infty}

\* a pop of cell p prices the skip in A only if p is above the last row, the
\* skip in B only if p is left of the last column and the align step only if
\* both; it changes D, BT and the frontier entries of no cell but the grid
\* successors of p (and removes the popped entry), and every frontier entry is
\* for a cell of the grid
RelaxesInBounds ==
    IsPop =>
        LET p == CellOf(candidate')
        IN  /\ 1 \in EdgesPriced(p) => p[1] < Len(a)
            /\ 2 \in EdgesPriced(p) => p[1] < Len(a) /\ p[2] < Len(b)
            /\ 3 \in EdgesPriced(p) => p[2] < Len(b)
            /\ DOMAIN D' = Cells /\ DOMAIN BT' = Cells
            /\ \A t \in BagToSet(heap') : CellOf(t) \in Cells
            /\ \A c \in Cells \ Successors(p) : D'[c] = D[c] /\ BT'[c] = BT[c]
            /\ \A t \in BagToSet(heap) \cup BagToSet(heap') :
                  (t # candidate' /\ CellOf(t) \notin Successors(p)) =>
                      CopiesIn(t, heap') = CopiesIn(t, heap)
            /\ CopiesIn(candidate', heap') = CopiesIn(candidate', heap) - 1

\* C22: from a popped cell only in-bounds forward edges are relaxed; no cell
\* outside [0..n] x [0..m] is written or pushed, and no cost function is
\* evaluated past the end of a or b.
C22_InBounds == [][RelaxesInBounds]_vars

\* the state after a pop of a cell of the last row, left of the corner, that
\* relaxed its one successor in the grid
C22_Witness ==
    /\ candidate # <<>>
    /\ Len(a) > 0
    /\ CellOf(candidate)[1] = Len(a)
    /\ CellOf(candidate)[2] < Len(b)
    /\ BT[<<Len(a), CellOf(candidate)[2] + 1>>] = CellOf(candidate)

\* C23: the call and the algorithm as described (candidate cost taken from the
\* popped entry instead of D[cx, cy]), run side by side on nonnegative costs,
\* have identical D, BT and frontier after every pop, and identical positions,
\* alignments and results.
C23_SameAsDescribed == other = Locals

\* the two have popped a stale entry, whose cost is above the D of its cell,
\* and the cell has successors in the grid
C23_Witness ==
    /\ pc = "search"
    /\ other.candidate # <<>>
    /\ other.candidate[1] > other.D[CellOf(other.candidate)]
    /\ CellOf(other.candidate)[1] < Len(a)
    /\ CellOf(other.candidate)[2] < Len(b)

\* the two have returned, with the cost
C23_WitnessReturned ==
    /\ pc = "done"
    /\ other.pc = "done"
    /\ result.with_cost
    /\ Len(result.alignment) >= 3

\* every cell reached so far, other than (0, 0), records one of its three grid
\* predecessors in BT
BTIsPredecessor ==
    \A c \in Cells : (c # <<0, 0>> /\ D[c] < Infty) => BT[c] \in Predecessors(c)

\* the backtracking walk has taken at most as many steps as it has come nearer
\* to (0, 0), hence at most n + m in all
WalkIsShort ==
    pc = "backtrack" => Len(alignment) <= (Len(a) + Len(b)) - (x + y)

\* the step is a step of the backtracking walk
IsBacktrack == pc = "backtrack" /\ <<x, y>> # <<0, 0>>

\* a backtracking step moves to a grid predecessor, so x + y strictly
\* decreases, and appends exactly the entry of its move: a diagonal move the
\* pair, a move along the rows (a[px], None), a move along the columns
\* (None, b[py])
BacktrackEmitsMove ==
    (IsBacktrack /\ pc' = "backtrack") =>
        /\ <<x', y'>> \in Predecessors(<<x, y>>)
        /\ x' + y' < x + y
        /\ Len(alignment') = Len(alignment) + 1
        /\ SubSeq(alignment', 1, Len(alignment)) = alignment
        /\ alignment'[Len(alignment')] =
              IF x' < x /\ y' < y THEN <<a[x' + 1], b[y' + 1]>>
              ELSE IF x' < x THEN <<a[x' + 1], None>>
              ELSE <<None, b[y' + 1]>>

\* C24: in every reachable state BT of every reached cell other than (0, 0) is
\* one of its three grid predecessors; hence each backtracking step strictly
\* decreases x + y, the walk from (n, m) reaches (0, 0) in at most n + m steps,
\* and each step emits the entry kind matching its move.
C24_BacktrackWalk == [](BTIsPredecessor /\ WalkIsShort) /\ [][BacktrackEmitsMove]_vars

\* the walk has reached (0, 0) after a diagonal move, a move along the rows
\* and a move along the columns
C24_Witness ==
    /\ pc = "backtrack"
    /\ <<x, y>> = <<0, 0>>
    /\ \E k \in 1..Len(alignment) : IsPair(alignment[k])
    /\ \E k \in 1..Len(alignment) : alignment[k][1] # None /\ alignment[k][2] = None
    /\ \E k \in 1..Len(alignment) : alignment[k][1] = None /\ alignment[k][2] # None

\* the positions in the history of the pushes for cell c
PushesFor(c) == {k \in 1..Len(pushed) : CellOf(pushed[k].entry) = c}

\* the pushes as edges of the grid: the cell popped and the cell pushed
PushedEdges == {<<pushed[k].from, CellOf(pushed[k].entry)>> : k \in 1..Len(pushed)}

\* no two pushes are along the same edge, the pushes of a cell come from its
\* grid predecessors and are no more than these, and the pushes are no more
\* than the initial entry and the edges of the grid
PushesBounded ==
    LET edges == PushedEdges
    IN  /\ Cardinality(edges) = Len(pushed)
        /\ \A c \in Cells \ {<<0, 0>>} :
              LET into == {e \in edges : e[2] = c}
              IN  /\ Cardinality(into) <= Cardinality(Predecessors(c))
                  /\ \A e \in into : e[1] \in Predecessors(c)
        /\ Len(pushed) <= 1 + Len(a) + Len(b) + 3 * Len(a) * Len(b)

\* C25: with nonnegative costs each cell is successfully relaxed at most once
\* per predecessor (at most 3 times for an interior cell, once for a border
\* cell), so at most 1 + n + m + 3*n*m entries are pushed in one call.
C25_PushBound == []PushesBounded

\* the call has returned after pushing some cell from two of its predecessors,
\* and after popping twice a cell that pushed a successor
C25_Witness ==
    /\ pc = "done"
    /\ \E c \in Cells : Cardinality(PushesFor(c)) >= 2
    /\ \E k1, k2 \in 1..Len(popped) :
          /\ k1 # k2
          /\ CellOf(popped[k1]) = CellOf(popped[k2])
          /\ \E k \in 1..Len(pushed) : pushed[k].from = CellOf(popped[k1])

\* C26: when a sequence of length n is aligned with itself under calign =
\* (0 if equal else 1) and a strictly positive cskip, the k-th entry popped is
\* (0, k-1, k-1): only diagonal cells are expanded, and exactly n + 1 entries
\* are popped in all.
C26_LinearBestCase ==
    IsIdentityCall =>
        /\ \A k \in 1..Len(popped) : popped[k] = <<0, -(k - 1), -(k - 1)>>
        /\ Len(popped) <= Len(a) + 1
        /\ SearchOver => Len(popped) = Len(a) + 1

\* a returned identity call on a sequence of two different elements, with
\* off-diagonal cells pushed and left unpopped in the frontier
C26_Witness ==
    /\ Done /\ IsIdentityCall
    /\ Len(a) = 2 /\ a[1] # a[2]
    /\ Len(popped) = 3
    /\ \E t \in BagToSet(heap) : CellOf(t)[1] # CellOf(t)[2]

\* the frontier entry that carries the current D of cell c
EntryAtD(c) == <<D[c], -c[1], -c[2]>>

\* cell c has been popped at its current D value
PoppedAtD(c) == EntryAtD(c) \in Range(popped)

\* the cells pushed so far
PushedCells == {CellOf(pushed[k].entry) : k \in 1..Len(pushed)}

\* every reached cell not popped at its D waits in the frontier at its D, and
\* the reached cells are (0, 0) and the pushed cells
LazyQueue ==
    LET done == Range(popped)
        reached == PushedCells
    IN  \A c \in Cells :
          /\ (D[c] < Infty /\ EntryAtD(c) \notin done) => BagIn(EntryAtD(c), heap)
          /\ D[c] < Infty <=> (c = <<0, 0>> \/ c \in reached)

\* C27: in every reachable state every cell with a finite D that has not been
\* popped at its current D value has a frontier entry whose cost is exactly
\* its D, and a cell has a finite D if and only if it is (0, 0) or has been
\* pushed at least once.
C27_LazyQueue == []LazyQueue

\* a state of the search loop with a cell popped at its current D and gone
\* from the frontier, a cell waiting in the frontier at its current D next to
\* a dearer stale entry for it, and a cell not reached yet
C27_Witness ==
    /\ pc = "search"
    /\ \E c \in Cells :
          /\ PoppedAtD(c)
          /\ \A t \in BagToSet(heap) : CellOf(t) # c
    /\ \E c \in Cells :
          /\ D[c] < Infty /\ ~PoppedAtD(c)
          /\ \E t \in BagToSet(heap) : CellOf(t) = c /\ t[1] > D[c]
    /\ \E c \in Cells : D[c] = Infty

\* no frontier entry has a second copy, any two entries are strictly ordered
\* and a non-empty frontier has exactly one least entry
FrontierOrdered ==
    /\ \A t \in BagToSet(heap) : CopiesIn(t, heap) = 1
    /\ \A s, t \in BagToSet(heap) : s # t => (TupleLess(s, t) \/ TupleLess(t, s))
    /\ heap # EmptyBag => Cardinality(HeapMins(heap)) = 1

\* every entry pushed by the step is cheaper than every entry pushed for the
\* same cell before it
PushesCheaper ==
    \A k \in (Len(pushed) + 1)..Len(pushed') :
        \A j \in 1..(k - 1) :
            CellOf(pushed'[j].entry) = CellOf(pushed'[k].entry) =>
                pushed'[j].entry[1] > pushed'[k].entry[1]

\* C28: the frontier never holds two identical entries: the entries pushed for
\* one cell over the call have strictly decreasing costs in push order, so the
\* keys (cost, -i, -j) in the heap are totally ordered without ties and exactly
\* one entry can be popped from a non-empty frontier.
C28_NoDuplicates == []FrontierOrdered /\ [][PushesCheaper]_vars

\* a state of the search loop whose frontier holds two entries for one cell,
\* and entries for two other cells at one cost
C28_Witness ==
    /\ pc = "search"
    /\ \E s, t \in BagToSet(heap) : CellOf(s) = CellOf(t) /\ s[1] < t[1]
    /\ \E s, t \in BagToSet(heap) : CellOf(s) # CellOf(t) /\ s[1] = t[1]

\* the positions of the paired entries of the returned alignment
PairedEntries == {k \in 1..Len(result.alignment) : IsPair(result.alignment[k])}

\* C29: the returned alignment has n + m entries less one per paired entry,
\* hence between max(n, m) and n + m entries, and at most min(n, m) paired
\* entries.
C29_Length ==
    Done =>
        LET n == Len(a)
            m == Len(b)
            pairs == Cardinality(PairedEntries)
            len == Len(result.alignment)
        IN  /\ len = n + m - pairs
            /\ len >= (IF n >= m THEN n ELSE m)
            /\ len <= n + m
            /\ pairs <= (IF n <= m THEN n ELSE m)

\* a returned call on sequences of different lengths whose alignment has a
\* paired entry and an unpaired one
C29_Witness ==
    /\ Done
    /\ Len(a) # Len(b)
    /\ PairedEntries # {}
    /\ Cardinality(PairedEntries) < Len(result.alignment)

\* a returned call on two non-empty sequences whose alignment pairs nothing
C29_WitnessNoPair ==
    /\ Done
    /\ Len(a) > 0 /\ Len(b) > 0
    /\ PairedEntries = {}

\* D[0, 0] is 0, the only push for (0, 0) is the initial entry, and no entry
\* of D is negative
OriginKept ==
    /\ D[<<0, 0>>] = 0
    /\ PushesFor(<<0, 0>>) = {1}
    /\ \A c \in Cells : D[c] >= 0

\* no step writes D or BT of (0, 0) or adds a frontier entry for it
OriginNotTargeted ==
    /\ D'[<<0, 0>>] = D[<<0, 0>>]
    /\ BT'[<<0, 0>>] = BT[<<0, 0>>]
    /\ \A t \in BagToSet(heap') : CellOf(t) = <<0, 0>> => BagIn(t, heap)

\* C30: D[0,0] equals 0 in every reachable state and (0,0) is pushed exactly
\* once, as the initial entry: no relaxation ever targets (0,0), and with
\* nonnegative costs no entry of D is negative.
C30_Origin == []OriginKept /\ [][OriginNotTargeted]_vars

\* a returned call in which a cell other than (0, 0) was reached at cost 0 and
\* another at a positive cost
C30_Witness ==
    /\ Done
    /\ \E c \in Cells : c # <<0, 0>> /\ D[c] = 0
    /\ \E c \in Cells : D[c] > 0 /\ D[c] < Infty

====
